---- MODULE Spec2Model ----
(***************************************************************************)
(* A model of the realtime-stt frontend: the transcription session         *)
(* (hooks/useWebSocketSTT.ts), the audio recorder with its resampler       *)
(* (hooks/useAudioRecorder.ts), the conversation hook                      *)
(* (hooks/useConversation.ts) and the App component that wires them        *)
(* (unnamed/part_002).                                                     *)
(*                                                                         *)
(* JavaScript runs one task at a time.  A browser event (socket event,     *)
(* worklet message, fetch progress, click) is one action.  Promise         *)
(* continuations are microtasks: they are kept in the queue `microtasks`   *)
(* and run, oldest first, before the next browser event is taken.          *)
(***************************************************************************)
EXTENDS Integers, Sequences, FiniteSets, TLC

(***************************************************************************)
(* Bounds of the model.                                                    *)
(***************************************************************************)
MaxConnects == 3       \* connect() calls in one run of the session
MaxStreamConnects == 1 \* connect() calls in one run of the streaming pipeline
MaxFrames == 2         \* frames the capture source delivers in one run
MaxSubmissions == 3    \* handleUserMessage calls in one run of the conversation
MaxCommits == 2        \* utterances committed in one run of the transcript handler
MaxResets == 1         \* Reset Chat clicks in one run
MaxChunks == 1         \* body chunks streamed by one generation response
MaxAudioFrames == 7    \* frames of one capture session of the recorder alone

Null == "null"

(***************************************************************************)
(* Text.  A string is a sequence of characters, so that trim() is computed *)
(* and not assumed.                                                        *)
(***************************************************************************)
IsSpace(c) == c = " "

\* String.prototype.trim, leading part
RECURSIVE TrimStart(_)
TrimStart(s) ==
    IF s = <<>> THEN <<>>
    ELSE IF IsSpace(Head(s)) THEN TrimStart(Tail(s))
    ELSE s

\* String.prototype.trim, trailing part
RECURSIVE TrimEnd(_)
TrimEnd(s) ==
    IF s = <<>> THEN <<>>
    ELSE IF IsSpace(s[Len(s)]) THEN TrimEnd(SubSeq(s, 1, Len(s) - 1))
    ELSE s

\* a trim() that returns its input untouched (a faulty variant of Trim)
TrimNothing(s) == s

\* String.prototype.trim
Trim(s) == TrimEnd(TrimStart(s))

(***************************************************************************)
(* Audio samples.  A Float32 sample x is held as the integer x * Unit, so  *)
(* that the mean of 1, 2 or 3 samples drawn from multiples of Unit is an   *)
(* integer again.                                                          *)
(***************************************************************************)
Unit == 2 * 3

\* useAudioRecorder.ts: DEFAULT_TARGET_SAMPLE_RATE = 16_000, in kHz
DEFAULT_TARGET_SAMPLE_RATE == 16

\* AudioContext.sampleRate of the capture device, in kHz
InputSampleRates == {8, 16, 24, 48}

\* the values a captured sample takes: -1.0, 0.0, 1.0 and 2.0 (out of range)
Samples == {-Unit, 0, Unit, 2 * Unit}

VARIABLES
    \* ---- useWebSocketStt
    url,                        \* the url option: "", "invalid" or "ws"
    sockets,                    \* every WebSocket object created so far
    wsRef,                      \* wsRef.current: index into sockets, 0 = null
    status,                     \* ConnectionStatus
    error,                      \* the hook's error state
    promises,                   \* every promise connect() has returned
    pendingConnectResolveRef,   \* index into promises, 0 = null
    pendingConnectRejectRef,    \* index into promises, 0 = null
    wire,                       \* what ws.send() handed to the network, in order
    \* ---- useAudioRecorder
    inputSampleRate,            \* audioContext.sampleRate
    isRecording,                \* worklet node installed, frames are delivered
    carryBufferRef,             \* carryBufferRef.current
    audioError,                 \* the recorder's error state
    emitted,                    \* every chunk handed to onData, in order
    frames,                     \* number of frames delivered so far
    captured,                   \* history: per frame delivered, the carry and
                                \* the input downsample was called with and
                                \* what it returned
    \* ---- useConversation
    messages,                   \* messagesRef.current, mirrored by the messages state
    conversationError,          \* the hook's error state
    isGenerating,
    abortControllerRef,         \* index into requests, 0 = null
    generationChainRef,         \* submission whose promise is the chain tail,
                                \* 0 = an already resolved promise
    submissions,                \* every handleUserMessage call so far
    requests,                   \* every generation request issued so far
    microtasks,                 \* pending promise continuations, oldest first
    messageIds,                 \* number of message ids handed out (ids are unique)
    resets,                     \* number of resets so far
    \* ---- App
    interimTranscript,
    runtimeError,
    lastFinalTranscriptRef,
    previousFinal,              \* history: the latest final transcript event,
                                \* << [transcript, outcome, tick] >>, or <<>>
                                \* before the first one; tick flips per event
    resetSinceFinal,            \* history: Reset Chat was clicked after that event
    interimTick,                \* history: flips whenever onResult reports a
                                \* transcript event that is not final
    \* ---- the earlier App (App.tsx) with its session, recorder and player
    connectionState,            \* ConnectionState of its transcription session
    wsError,                    \* the error that session surfaces
    isRecordingRef,             \* isRecordingRef.current of its recorder
    recError,                   \* the error that recorder surfaces
    startRecordingPending,      \* startRecording awaits getUserMedia
    generateSpeechPending,      \* onFinal awaits generateSpeech
    isPlaying,                  \* the player's isPlaying
    playerError,                \* the player's error state
    playbacks,                  \* history: number of playAudioStream calls
    onEndedCalls,               \* history: number of times the player has
                                \* called the onEnded it was given
    turns,                      \* number of final transcripts handled so far
    rearm                       \* history: how the two steps taken when playback
                                \* ended went, [connect, capture], each "none",
                                \* "pending", "ok" or "failed"

sessionVars == <<url, sockets, wsRef, status, error, promises,
                 pendingConnectResolveRef, pendingConnectRejectRef, wire>>
recorderVars == <<inputSampleRate, isRecording, carryBufferRef, audioError,
                  emitted, frames, captured>>
conversationVars == <<messages, conversationError, isGenerating,
                      abortControllerRef, generationChainRef, submissions,
                      requests, microtasks, messageIds, resets>>
appVars == <<interimTranscript, runtimeError, lastFinalTranscriptRef,
             previousFinal, resetSinceFinal>>
playerVars == <<playerError, playbacks, onEndedCalls>>
legacyVars == <<connectionState, wsError, isRecordingRef, recError,
                startRecordingPending, generateSpeechPending, isPlaying, turns,
                rearm, playerVars>>
vars == <<sessionVars, recorderVars, conversationVars, appVars, interimTick,
          legacyVars>>

(***************************************************************************)
(* Inputs.                                                                 *)
(***************************************************************************)
\* texts a transcript carries
Texts == { <<>>, <<" ">>, <<"a">>, <<" ", "a", " ">>, <<"b">> }

\* texts a caller submits directly
SubmittedTexts == { <<" ">>, <<" ", "a", " ">> }

\* SttResultPayload: what JSON.parse returns for a well-formed message
Payloads ==
    [ error : {Null}, is_final : {TRUE},
      alternatives : {<<>>} \cup { <<t>> : t \in Texts } ]
    \cup [ error : {Null}, is_final : {FALSE},
           alternatives : { <<>>, << <<"a">> >> } ]
    \cup [ error : {"stt failed"}, is_final : BOOLEAN, alternatives : { <<>> } ]

\* MessageEvent.data: text that parses to a payload, or text that does not
MessageData ==
    { [parses |-> FALSE] } \cup { [parses |-> TRUE, payload |-> p] : p \in Payloads }

\* what the generation backend streams: chunks of bytes, "L" and "T" the
\* lead and the trail byte of a two-byte character, any other a one-byte
\* character
StreamChunks == { <<" ", "x">> }

\* TextDecoder.decode(value) without the stream option: every call starts
\* afresh and ends its input, so a lead byte at the end is malformed
RECURSIVE DecodeAlone(_, _)
DecodeAlone(pending, bytes) ==
    LET input == pending \o bytes
    IN  IF input = <<>> THEN [ text |-> <<>>, pending |-> <<>> ]
        ELSE IF Head(input) \notin {"L", "T"}
        THEN [ text |-> <<Head(input)>> \o DecodeAlone(<<>>, Tail(input)).text,
               pending |-> <<>> ]
        ELSE IF Head(input) = "L" /\ Len(input) > 1 /\ input[2] = "T"
        THEN [ text |-> <<"e'">> \o DecodeAlone(<<>>, Tail(Tail(input))).text,
               pending |-> <<>> ]
        ELSE [ text |-> <<"?">> \o DecodeAlone(<<>>, Tail(input)).text,
               pending |-> <<>> ]

\* TextDecoder.decode(value, { stream: true }): the text of the complete
\* characters of the pending bytes followed by value, and the bytes of an
\* incomplete character, kept for the next call; a malformed byte decodes
\* to the replacement character "?"
RECURSIVE Decode(_, _)
Decode(pending, bytes) ==
    LET input == pending \o bytes
    IN  IF input = <<>> THEN [ text |-> <<>>, pending |-> <<>> ]
        ELSE IF Head(input) \notin {"L", "T"}
        THEN LET rest == Decode(<<>>, Tail(input))
             IN  [ text |-> <<Head(input)>> \o rest.text, pending |-> rest.pending ]
        ELSE IF Head(input) = "L" /\ Len(input) = 1
        THEN [ text |-> <<>>, pending |-> input ]
        ELSE IF Head(input) = "L" /\ input[2] = "T"
        THEN LET rest == Decode(<<>>, Tail(Tail(input)))
             IN  [ text |-> <<"e'">> \o rest.text, pending |-> rest.pending ]
        ELSE LET rest == Decode(<<>>, Tail(input))
             IN  [ text |-> <<"?">> \o rest.text, pending |-> rest.pending ]

\* TextDecoder.decode() at the end of the stream: an incomplete character
\* left over is malformed
DecodeEnd(pending) == IF pending = <<>> THEN <<>> ELSE <<"?">>

\* how the fetch of a generation request ends
FetchOutcomes == { "ok", "not_ok", "network_error" }

\* an error message shown as text: the message is one unit of the text
TextOf(message) == << message >>

\* Error.message of a failed generation
GenerationErrorText(outcome) ==
    IF outcome = "not_ok" THEN "Failed to generate response (500)."
    ELSE "Failed to fetch"

(***************************************************************************)
(* useConversation.ts                                                      *)
(***************************************************************************)
\* ensureMessagePart / createMessage: one part holding the text
CreateMessage(id, role, text, streaming) ==
    [ id |-> id, role |-> role, parts |-> <<text>>,
      isStreaming |-> streaming, error |-> Null ]

\* the parts as they are (a faulty variant of NormalizedParts)
UntrimmedParts(message) == message.parts

\* toHistoryItem: the trimmed, non-empty parts of a message
NormalizedParts(message) ==
    SelectSeq([ i \in 1..Len(message.parts) |-> Trim(message.parts[i]) ],
              LAMBDA t : Len(t) > 0)

\* toHistoryItem returns null when no part is left
ToHistoryItem(message) ==
    [ role |-> message.role, parts |-> NormalizedParts(message) ]

\* historyBeforeAssistant.map(toHistoryItem).filter(item => item !== null)
HistoryPayload(history) ==
    LET kept == SelectSeq(history, LAMBDA m : NormalizedParts(m) # <<>>)
    IN  [ i \in 1..Len(kept) |-> ToHistoryItem(kept[i]) ]

\* a map that updates no message (a faulty variant of UpdateMessageById)
LeaveMessageById(history, id, text, streaming, err) == history

\* updateMessageById: map over messagesRef.current, updating the one with the id
UpdateMessageById(history, id, text, streaming, err) ==
    [ i \in 1..Len(history) |->
        IF history[i].id = id
        THEN [ history[i] EXCEPT !.parts = <<text>>, !.isStreaming = streaming,
                                 !.error = IF err = Null THEN @ ELSE err ]
        ELSE history[i] ]

\* a filter that keeps every message (a faulty variant of RemoveMessageById)
KeepMessageById(history, id) == history

\* messagesRef.current.filter(message => message.id !== id)
RemoveMessageById(history, id) ==
    SelectSeq(history, LAMBDA m : m.id # id)

\* a request the network is still working on
InFlight(r) ==
    /\ requests[r].phase \in {"fetching", "streaming"}
    /\ ~requests[r].aborted

\* an abort() whose signal reaches no request (a faulty variant of
\* AbortedRequests)
UnabortedRequests(r) == requests

\* AbortController.abort(): the signal of request r fires if the request is
\* still in flight; the rejected await is continued in a microtask
AbortedRequests(r) ==
    IF r # 0 /\ InFlight(r) THEN [ requests EXCEPT ![r].aborted = TRUE ]
    ELSE requests

AbortJobs(r) ==
    IF r # 0 /\ InFlight(r) THEN << [kind |-> "abort", id |-> r] >> ELSE <<>>

\* a settled promise that calls none of its then-callbacks (a faulty variant
\* of ChainedJobs)
NoChainedJobs(i) == <<>>

\* the then-callback registered on the promise of submission i, if any: it
\* is queued when that promise settles
ChainedJobs(i) ==
    LET next == { j \in 1..Len(submissions) :
                    submissions[j].after = i /\ submissions[j].phase = "queued" }
    IN  IF next = {} THEN <<>>
        ELSE << [kind |-> "process", id |-> CHOOSE j \in next : TRUE] >>

\* a browser task may start: no continuation is pending and no socket is in
\* the middle of delivering its error and close events
TaskBoundary ==
    /\ microtasks = <<>>
    /\ \A s \in 1..Len(sockets) : ~sockets[s].closePending

\* handleUserMessage: chain the submission behind generationChainRef.current
HandleUserMessage(text) ==
    LET i == Len(submissions) + 1
        after == generationChainRef
        ready == after = 0 \/ submissions[after].phase = "settled"
    IN  /\ submissions' = Append(submissions,
              [ text |-> text, after |-> after, phase |-> "queued",
                request |-> 0, epoch |-> resets ])
        /\ generationChainRef' = i
        /\ microtasks' = IF ready
                         THEN Append(microtasks, [kind |-> "process", id |-> i])
                         ELSE microtasks

\* processUserMessage up to its first await (the fetch)
ProcessUserMessage(i, rest) ==
    LET normalized == Trim(submissions[i].text)
        userMessage == CreateMessage(messageIds + 1, "user", normalized, FALSE)
        historyBeforeAssistant == Append(messages, userMessage)
        historyPayload == HistoryPayload(historyBeforeAssistant)
        assistantMessage == CreateMessage(messageIds + 2, "model", <<>>, TRUE)
        r == Len(requests) + 1
    IN  IF normalized = <<>>
        THEN /\ submissions' = [ submissions EXCEPT ![i].phase = "settled" ]
             /\ microtasks' = rest \o ChainedJobs(i)
             /\ UNCHANGED <<messages, conversationError, isGenerating,
                            abortControllerRef, requests, messageIds>>
        ELSE /\ messages' = Append(historyBeforeAssistant, assistantMessage)
             /\ messageIds' = messageIds + 2
             /\ requests' = Append(AbortedRequests(abortControllerRef),
                   [ submission |-> i, assistantId |-> assistantMessage.id,
                     payload |-> historyPayload, phase |-> "fetching",
                     aborted |-> FALSE, accumulated |-> <<>>, chunks |-> 0,
                     pending |-> <<>>, received |-> <<>> ])
             /\ microtasks' = rest \o AbortJobs(abortControllerRef)
             /\ abortControllerRef' = r
             /\ isGenerating' = TRUE
             /\ conversationError' = Null
             /\ submissions' = [ submissions EXCEPT ![i].phase = "running",
                                                    ![i].request = r ]

\* the finally block of processUserMessage, after which its promise settles
FinallyBlock(r, rest) ==
    /\ abortControllerRef' = IF abortControllerRef = r THEN 0 ELSE abortControllerRef
    /\ isGenerating' = FALSE
    /\ submissions' = [ submissions EXCEPT ![requests[r].submission].phase = "settled" ]
    /\ microtasks' = rest \o ChainedJobs(requests[r].submission)

\* catch, AbortError branch: drop the placeholder assistant message
CatchAbortError(r, rest) ==
    /\ messages' = RemoveMessageById(messages, requests[r].assistantId)
    /\ requests' = [ requests EXCEPT ![r].phase = "cancelled" ]
    /\ FinallyBlock(r, rest)
    /\ UNCHANGED <<conversationError, messageIds>>

\* catch, any other error: surface it and write it into the placeholder
CatchError(r, message) ==
    /\ conversationError' = message
    /\ runtimeError' = message
    /\ messages' = UpdateMessageById(messages, requests[r].assistantId,
                                     TextOf(message), FALSE, message)
    /\ requests' = [ requests EXCEPT ![r].phase = "failed" ]
    /\ FinallyBlock(r, microtasks)
    /\ UNCHANGED messageIds

\* reset
ResetConversation ==
    /\ requests' = AbortedRequests(abortControllerRef)
    /\ microtasks' = microtasks \o AbortJobs(abortControllerRef)
    /\ abortControllerRef' = 0
    /\ messages' = <<>>
    /\ conversationError' = Null
    /\ isGenerating' = FALSE
    /\ generationChainRef' = 0
    /\ resets' = resets + 1
    /\ UNCHANGED <<submissions, messageIds>>

(***************************************************************************)
(* App (unnamed/part_002)                                                  *)
(***************************************************************************)
\* payload.alternatives[0]?.transcript ?? ''
Transcript(payload) ==
    IF payload.alternatives = <<>> THEN <<>> ELSE payload.alternatives[1]

\* a comparison that never finds a repeat (a faulty variant of IsRepeated)
NeverRepeated(normalized) == FALSE

\* normalized === lastFinalTranscriptRef.current
IsRepeated(normalized) == normalized = lastFinalTranscriptRef

\* a final transcript event that handleSttResult passes on as a submission
Commits(payload) ==
    /\ payload.error = Null
    /\ payload.is_final
    /\ Trim(Transcript(payload)) # <<>>
    /\ ~IsRepeated(Trim(Transcript(payload)))

\* the interim text with the new text appended (a faulty variant of
\* ShownInterim)
AppendedInterim(current, transcript) == current \o transcript

\* setInterimTranscript(transcript): the state is replaced
ShownInterim(current, transcript) == transcript

\* handleSttResult, the onResult callback of the session
HandleSttResult(payload) ==
    LET transcript == Transcript(payload)
        normalized == Trim(transcript)
        outcome == IF normalized = <<>> THEN "blank"
                   ELSE IF IsRepeated(normalized) THEN "repeated"
                   ELSE "committed"
        tick == previousFinal # <<>> /\ ~previousFinal[1].tick
    IN  /\ previousFinal' = IF payload.error = Null /\ payload.is_final
                            THEN << [ transcript |-> transcript,
                                      outcome |-> outcome, tick |-> tick ] >>
                            ELSE previousFinal
        /\ resetSinceFinal' = IF payload.error = Null /\ payload.is_final
                              THEN FALSE ELSE resetSinceFinal
        /\ IF payload.error # Null
           THEN /\ runtimeError' = payload.error
                /\ UNCHANGED <<interimTranscript, lastFinalTranscriptRef,
                               submissions, generationChainRef, microtasks>>
           ELSE IF transcript = <<>>
           THEN /\ interimTranscript' = IF payload.is_final THEN <<>>
                                        ELSE interimTranscript
                /\ UNCHANGED <<runtimeError, lastFinalTranscriptRef,
                               submissions, generationChainRef, microtasks>>
           ELSE IF ~payload.is_final
           THEN /\ interimTranscript' = ShownInterim(interimTranscript, transcript)
                /\ UNCHANGED <<runtimeError, lastFinalTranscriptRef,
                               submissions, generationChainRef, microtasks>>
           ELSE IF normalized = <<>>
           THEN /\ interimTranscript' = <<>>
                /\ UNCHANGED <<runtimeError, lastFinalTranscriptRef,
                               submissions, generationChainRef, microtasks>>
           ELSE IF ~IsRepeated(normalized)
           THEN /\ lastFinalTranscriptRef' = normalized
                /\ interimTranscript' = <<>>
                /\ HandleUserMessage(normalized)
                /\ UNCHANGED runtimeError
           ELSE UNCHANGED <<interimTranscript, runtimeError, lastFinalTranscriptRef,
                            submissions, generationChainRef, microtasks>>
        /\ UNCHANGED <<messages, conversationError, isGenerating,
                       abortControllerRef, requests, messageIds, resets>>

\* handleReset, the Reset Chat button
HandleReset ==
    /\ ResetConversation
    /\ interimTranscript' = <<>>
    /\ runtimeError' = Null
    /\ lastFinalTranscriptRef' = <<>>
    /\ resetSinceFinal' = TRUE
    /\ UNCHANGED previousFinal

(***************************************************************************)
(* useAudioRecorder.ts                                                     *)
(***************************************************************************)
\* 0x8000 and 0x7fff, the scales of convertFloat32ToInt16
NegativeScale == 32768
PositiveScale == 32767

\* the integer part of a / b, as a typed-array store truncates (toward zero)
Truncate(a, b) == IF a >= 0 THEN a \div b ELSE -((-a) \div b)

\* clampSample
ClampSample(value) ==
    IF value < -Unit THEN -Unit ELSE IF value > Unit THEN Unit ELSE value

\* convertFloat32ToInt16, one sample
ToInt16(sample) ==
    LET s == ClampSample(sample)
    IN  IF s < 0 THEN Truncate(s * NegativeScale, Unit)
        ELSE Truncate(s * PositiveScale, Unit)

\* convertFloat32ToInt16
ConvertFloat32ToInt16(samples) ==
    [ i \in 1..Len(samples) |-> ToInt16(samples[i]) ]

RECURSIVE Sum(_, _, _)
\* buffer[from] + ... + buffer[to - 1], indices counted from 0 as in the source
Sum(buffer, from, to) ==
    IF from >= to THEN 0 ELSE buffer[from + 1] + Sum(buffer, from + 1, to)

\* Math.floor(i * sampleRateRatio)
WindowStart(i, inputRate, targetRate) == (i * inputRate) \div targetRate

\* the first sample of the window in place of its mean
WindowFirst(buffer, i, inputRate, targetRate) ==
    buffer[WindowStart(i, inputRate, targetRate) + 1]

\* the inner loop of downsample: the mean of one window
WindowMean(buffer, i, inputRate, targetRate) ==
    LET start == WindowStart(i, inputRate, targetRate)
        end == WindowStart(i + 1, inputRate, targetRate)
        stop == IF end < Len(buffer) THEN end ELSE Len(buffer)
        count == IF stop > start THEN stop - start ELSE 0
    IN  IF count > 0 THEN Sum(buffer, start, stop) \div count ELSE 0

\* a downsample that forgets the samples it did not consume (a faulty
\* variant of Downsample)
DownsampleWithoutCarry(input, inputRate, targetRate, carry) ==
    IF targetRate > inputRate
    THEN [ threw |-> TRUE, downsampled |-> <<>>, leftover |-> <<>> ]
    ELSE [ threw |-> FALSE,
           downsampled |-> [ k \in 1..((Len(input) * targetRate) \div inputRate) |->
                               WindowMean(input, k - 1, inputRate, targetRate) ],
           leftover |-> <<>> ]

\* downsample; threw = the configuration error of line 46
Downsample(input, inputRate, targetRate, carry) ==
    IF targetRate = inputRate
    THEN [ threw |-> FALSE, downsampled |-> input, leftover |-> <<>> ]
    ELSE IF targetRate > inputRate
    THEN [ threw |-> TRUE, downsampled |-> <<>>, leftover |-> <<>> ]
    ELSE LET buffer == carry \o input
             newLength == (Len(buffer) * targetRate) \div inputRate
             offset == IF newLength = 0 THEN 0
                       ELSE WindowStart(newLength, inputRate, targetRate)
         IN  [ threw |-> FALSE,
               downsampled |-> [ k \in 1..newLength |->
                                   WindowMean(buffer, k - 1, inputRate, targetRate) ],
               leftover |-> IF Len(buffer) - offset > 0
                            THEN SubSeq(buffer, offset + 1, Len(buffer))
                            ELSE <<>> ]

(***************************************************************************)
(* useWebSocketSTT.ts                                                      *)
(***************************************************************************)
Urls == { "", "invalid", "ws" }

\* the close code of a graceful closure
NormalClosure == 1000

\* the close codes a server sends: graceful, or 1011 (internal error)
ServerCloseCodes == { NormalClosure, 1011 }

\* `WebSocket closed unexpectedly (${evt.code}).`
CloseMessage(code) ==
    IF code = 1006 THEN "WebSocket closed unexpectedly (1006)."
    ELSE "WebSocket closed unexpectedly (1011)."

\* resolve() or reject() of the promise a ref holds; a settled promise stays
Settle(ps, ref, outcome) ==
    IF ref # 0 /\ ps[ref].state = "pending"
    THEN [ ps EXCEPT ![ref].state = outcome ]
    ELSE ps

\* cleanupPendingPromise
CleanupPendingPromise ==
    /\ pendingConnectResolveRef' = 0
    /\ pendingConnectRejectRef' = 0

\* handleError
HandleError(message) ==
    /\ status' = "error"
    /\ error' = message
    /\ runtimeError' = message
    /\ promises' = Settle(promises, pendingConnectRejectRef, "rejected")
    /\ CleanupPendingPromise

\* the guard of sendAudioChunk: a socket is held and it is open
SendAccepted ==
    /\ wsRef # 0
    /\ sockets[wsRef].readyState = "OPEN"

\* a send that puts the chunk ahead of what was sent before (a faulty
\* variant of SendAudioChunk)
SendAudioChunkAhead(chunk) ==
    wire' = IF SendAccepted
            THEN << [ socket |-> wsRef, chunk |-> chunk ] >> \o wire
            ELSE wire

\* sendAudioChunk: ws.send(chunk) when accepted
SendAudioChunk(chunk) ==
    wire' = IF SendAccepted
            THEN Append(wire, [ socket |-> wsRef, chunk |-> chunk ])
            ELSE wire

\* socket.onopen
OnOpen ==
    /\ status' = "connected"
    /\ error' = Null
    /\ promises' = Settle(promises, pendingConnectResolveRef, "resolved")
    /\ CleanupPendingPromise
    /\ UNCHANGED <<wsRef, runtimeError>>

\* socket.onclose
OnClose(code) ==
    /\ IF code # NormalClosure
       THEN HandleError(CloseMessage(code))
       ELSE /\ status' = "disconnected"
            /\ CleanupPendingPromise
            /\ UNCHANGED <<error, promises, runtimeError>>
    /\ wsRef' = 0

\* a guard that never sees an attempt in flight (a faulty variant of
\* AttemptInFlight)
NoAttemptInFlight == FALSE

\* wsRef.current?.readyState === WebSocket.CONNECTING
AttemptInFlight == wsRef # 0 /\ sockets[wsRef].readyState = "CONNECTING"

\* connect
Connect ==
    /\ TaskBoundary
    /\ LET p == Len(promises) + 1
           noUrl == "STT WebSocket URL is not configured."
           failed == "Failed to establish WebSocket connection."
       IN  IF url = ""
           THEN /\ status' = "error"
                /\ error' = noUrl
                /\ runtimeError' = IF error # noUrl THEN noUrl ELSE runtimeError
                /\ promises' = Append(promises, [state |-> "rejected", socket |-> 0])
                /\ UNCHANGED <<sockets, wsRef, pendingConnectResolveRef,
                               pendingConnectRejectRef>>
           ELSE IF wsRef # 0 /\ sockets[wsRef].readyState = "OPEN"
           THEN /\ promises' = Append(promises, [state |-> "resolved", socket |-> wsRef])
                /\ UNCHANGED <<sockets, wsRef, status, error, runtimeError,
                               pendingConnectResolveRef, pendingConnectRejectRef>>
           ELSE IF AttemptInFlight
           THEN /\ promises' = Append(promises, [state |-> "pending", socket |-> wsRef])
                /\ pendingConnectResolveRef' = p
                /\ pendingConnectRejectRef' = p
                /\ UNCHANGED <<sockets, wsRef, status, error, runtimeError>>
           ELSE IF url = "invalid"
           THEN \* new WebSocket(url) throws: handleError, then reject(err)
                /\ status' = "error"
                /\ error' = failed
                /\ runtimeError' = failed
                /\ promises' = Append(Settle(promises, pendingConnectRejectRef, "rejected"),
                                      [state |-> "rejected", socket |-> 0])
                /\ CleanupPendingPromise
                /\ UNCHANGED <<sockets, wsRef>>
           ELSE /\ status' = "connecting"
                /\ sockets' = Append(sockets,
                      [ readyState |-> "CONNECTING", handlers |-> TRUE,
                        closePending |-> FALSE, attempt |-> "pending",
                        released |-> FALSE, closeCode |-> 0 ])
                /\ wsRef' = Len(sockets) + 1
                /\ promises' = Append(promises,
                      [state |-> "pending", socket |-> Len(sockets) + 1])
                /\ pendingConnectResolveRef' = p
                /\ pendingConnectRejectRef' = p
                /\ UNCHANGED <<error, runtimeError>>
    /\ UNCHANGED <<url, wire, recorderVars, conversationVars,
                   interimTranscript, lastFinalTranscriptRef, previousFinal,
                   resetSinceFinal>>
    /\ UNCHANGED legacyVars
    /\ UNCHANGED interimTick

\* a disconnect that leaves the handlers of the socket in place (a faulty
\* variant of Detached)
StillAttached(socket) == socket

\* ws.onopen = null; ws.onmessage = null; ws.onerror = null; ws.onclose = null
Detached(socket) == [ socket EXCEPT !.handlers = FALSE ]

\* disconnect; `released` records that disconnect() was called on the socket
Disconnect ==
    /\ TaskBoundary
    /\ IF wsRef = 0
       THEN UNCHANGED <<sockets, wsRef, status, pendingConnectResolveRef,
                        pendingConnectRejectRef>>
       ELSE /\ sockets' = [ sockets EXCEPT
                  ![wsRef] = Detached(@),
                  ![wsRef].released = TRUE,
                  ![wsRef].readyState =
                      IF @ \in {"CONNECTING", "OPEN"} THEN "CLOSING" ELSE @,
                  ![wsRef].attempt =
                      IF sockets[wsRef].readyState = "CONNECTING"
                      THEN "cancelled" ELSE @ ]
            /\ wsRef' = 0
            /\ status' = "disconnected"
            /\ CleanupPendingPromise
    /\ UNCHANGED <<url, error, promises, wire, recorderVars, conversationVars, appVars>>
    /\ UNCHANGED legacyVars
    /\ UNCHANGED interimTick

\* the connection of socket s is established: readyState OPEN, open event
SocketOpen(s) ==
    /\ TaskBoundary
    /\ sockets[s].readyState = "CONNECTING"
    /\ sockets' = [ sockets EXCEPT ![s].readyState = "OPEN", ![s].attempt = "opened" ]
    /\ IF sockets[s].handlers
       THEN OnOpen
       ELSE UNCHANGED <<wsRef, status, error, promises, pendingConnectResolveRef,
                        pendingConnectRejectRef, runtimeError>>
    /\ UNCHANGED <<url, wire, recorderVars, conversationVars,
                   interimTranscript, lastFinalTranscriptRef, previousFinal,
                   resetSinceFinal>>
    /\ UNCHANGED legacyVars
    /\ UNCHANGED interimTick

\* a message arrives on socket s: socket.onmessage.  A socket the client is
\* closing still receives what the server sent before it saw the close.
SocketMessage(s, data) ==
    /\ TaskBoundary
    /\ \/ sockets[s].readyState = "OPEN"
       \/ sockets[s].readyState = "CLOSING" /\ sockets[s].released
    /\ IF ~sockets[s].handlers
       THEN UNCHANGED <<status, error, promises, pendingConnectResolveRef,
                        pendingConnectRejectRef, conversationVars, appVars>>
       ELSE IF data.parses
       THEN /\ Commits(data.payload) => Len(submissions) < MaxCommits
            /\ HandleSttResult(data.payload)
            /\ UNCHANGED <<status, error, promises, pendingConnectResolveRef,
                           pendingConnectRejectRef>>
       ELSE /\ HandleError("Failed to parse STT payload.")
            /\ UNCHANGED <<conversationVars, interimTranscript,
                           lastFinalTranscriptRef, previousFinal, resetSinceFinal>>
    /\ UNCHANGED <<url, sockets, wsRef, wire, recorderVars>>
    /\ UNCHANGED legacyVars
    /\ UNCHANGED interimTick

\* the server starts the closing handshake of socket s: readyState CLOSING
SocketClosing(s) ==
    /\ TaskBoundary
    /\ sockets[s].readyState = "OPEN"
    /\ sockets' = [ sockets EXCEPT ![s].readyState = "CLOSING" ]
    /\ UNCHANGED <<url, wsRef, status, error, promises, pendingConnectResolveRef,
                   pendingConnectRejectRef, wire, recorderVars, conversationVars,
                   appVars>>
    /\ UNCHANGED legacyVars
    /\ UNCHANGED interimTick

\* the closing handshake of socket s completes: readyState CLOSED, close event
SocketClose(s, code) ==
    /\ TaskBoundary
    /\ sockets[s].readyState = "CLOSING"
    /\ sockets' = [ sockets EXCEPT ![s].readyState = "CLOSED",
                                   ![s].closeCode = code ]
    /\ IF sockets[s].handlers
       THEN OnClose(code)
       ELSE UNCHANGED <<wsRef, status, error, promises, pendingConnectResolveRef,
                        pendingConnectRejectRef, runtimeError>>
    /\ UNCHANGED <<url, wire, recorderVars, conversationVars,
                   interimTranscript, lastFinalTranscriptRef, previousFinal,
                   resetSinceFinal>>
    /\ UNCHANGED legacyVars
    /\ UNCHANGED interimTick

\* the connection of socket s fails: readyState CLOSED, error event
\* (socket.onerror); the close event follows in the same task
SocketError(s) ==
    /\ TaskBoundary
    /\ sockets[s].readyState \in {"CONNECTING", "OPEN", "CLOSING"}
    /\ sockets' = [ sockets EXCEPT
          ![s].readyState = "CLOSED",
          ![s].closePending = TRUE,
          ![s].attempt = IF sockets[s].readyState = "CONNECTING" /\ @ = "pending"
                         THEN "failed" ELSE @ ]
    /\ IF sockets[s].handlers
       THEN HandleError("WebSocket error occurred.")
       ELSE UNCHANGED <<status, error, promises, pendingConnectResolveRef,
                        pendingConnectRejectRef, runtimeError>>
    /\ UNCHANGED <<url, wsRef, wire, recorderVars, conversationVars,
                   interimTranscript, lastFinalTranscriptRef, previousFinal,
                   resetSinceFinal>>
    /\ UNCHANGED legacyVars
    /\ UNCHANGED interimTick

\* the close event of a failed connection, code 1006 (socket.onclose)
SocketCloseAfterError(s) ==
    /\ microtasks = <<>>
    /\ sockets[s].closePending
    /\ sockets' = [ sockets EXCEPT ![s].closePending = FALSE,
                                   ![s].closeCode = 1006 ]
    /\ IF sockets[s].handlers
       THEN OnClose(1006)
       ELSE UNCHANGED <<wsRef, status, error, promises, pendingConnectResolveRef,
                        pendingConnectRejectRef, runtimeError>>
    /\ UNCHANGED <<url, wire, recorderVars, conversationVars,
                   interimTranscript, lastFinalTranscriptRef, previousFinal,
                   resetSinceFinal>>
    /\ UNCHANGED legacyVars
    /\ UNCHANGED interimTick

(***************************************************************************)
(* The recorder and the App's onData wiring                                *)
(***************************************************************************)
\* frames the capture source delivers while the session is exercised
SessionFrames == { << Unit >>, << 0, Unit, -Unit >> }

\* start; ok = the microphone and the worklet could be set up
Start(ok) ==
    /\ TaskBoundary
    /\ ~isRecording
    /\ IF ok
       THEN /\ audioError' = Null
            /\ isRecording' = TRUE
            /\ UNCHANGED <<carryBufferRef, runtimeError>>
       ELSE /\ audioError' = "Failed to start audio recording."
            /\ runtimeError' = "Failed to start audio recording."
            /\ carryBufferRef' = <<>>
            /\ isRecording' = FALSE
    /\ UNCHANGED <<inputSampleRate, emitted, frames, captured, sessionVars,
                   conversationVars,
                   interimTranscript, lastFinalTranscriptRef, previousFinal,
                   resetSinceFinal>>
    /\ UNCHANGED legacyVars
    /\ UNCHANGED interimTick

\* stop
Stop ==
    /\ TaskBoundary
    /\ isRecording' = FALSE
    /\ carryBufferRef' = <<>>
    /\ UNCHANGED <<inputSampleRate, audioError, emitted, frames, captured, sessionVars,
                   conversationVars, appVars>>
    /\ UNCHANGED legacyVars
    /\ UNCHANGED interimTick

\* the App's onData: hand the chunk to the session, report a refusal
OnData(chunk) ==
    /\ SendAudioChunk(chunk)
    /\ runtimeError' = IF SendAccepted THEN runtimeError
                       ELSE "Failed to stream audio chunk to backend."

\* workletNode.port.onmessage: one captured frame
WorkletMessage(frame) ==
    /\ TaskBoundary
    /\ isRecording
    /\ frames' = frames + 1
    /\ captured' = Append(captured,
          [ carry |-> carryBufferRef, input |-> frame,
            result |-> Downsample(frame, inputSampleRate,
                                  DEFAULT_TARGET_SAMPLE_RATE, carryBufferRef) ])
    /\ LET result == Downsample(frame, inputSampleRate,
                                DEFAULT_TARGET_SAMPLE_RATE, carryBufferRef)
           chunk == [ frame |-> frames + 1,
                      data |-> ConvertFloat32ToInt16(result.downsampled) ]
       IN  IF result.threw
           THEN /\ audioError' = "Failed to process audio chunk."
                /\ runtimeError' = IF audioError # "Failed to process audio chunk."
                                   THEN "Failed to process audio chunk."
                                   ELSE runtimeError
                /\ UNCHANGED <<carryBufferRef, emitted, wire>>
           ELSE /\ carryBufferRef' = result.leftover
                /\ IF Len(result.downsampled) > 0
                   THEN /\ emitted' = Append(emitted,
                              [ chunk |-> chunk, accepted |-> SendAccepted,
                                status |-> status, error |-> error ])
                        /\ OnData(chunk)
                   ELSE UNCHANGED <<emitted, wire, runtimeError>>
                /\ UNCHANGED audioError
    /\ UNCHANGED <<inputSampleRate, isRecording, url, sockets, wsRef, status, error,
                   promises, pendingConnectResolveRef, pendingConnectRejectRef,
                   conversationVars, interimTranscript, lastFinalTranscriptRef,
                   previousFinal, resetSinceFinal>>
    /\ UNCHANGED legacyVars
    /\ UNCHANGED interimTick

(***************************************************************************)
(* The conversation: calls, continuations and the generation backend       *)
(***************************************************************************)
\* a caller invokes handleUserMessage(text)
UserSubmits(text) ==
    /\ Len(submissions) < MaxSubmissions
    /\ HandleUserMessage(text)
    /\ UNCHANGED <<messages, conversationError, isGenerating, abortControllerRef,
                   requests, messageIds, resets, sessionVars, recorderVars, appVars>>
    /\ UNCHANGED legacyVars
    /\ UNCHANGED interimTick

\* the session reports a parsed event: onResult(payload)
OnResult(payload) ==
    /\ TaskBoundary
    /\ Commits(payload) => Len(submissions) < MaxCommits
    /\ HandleSttResult(payload)
    /\ interimTick' = IF payload.error = Null /\ ~payload.is_final
                      THEN ~interimTick ELSE interimTick
    /\ UNCHANGED <<sessionVars, recorderVars>>
    /\ UNCHANGED legacyVars

\* the then-callback of the chain runs: processUserMessage starts
RunProcess ==
    /\ microtasks # <<>>
    /\ Head(microtasks).kind = "process"
    /\ ProcessUserMessage(Head(microtasks).id, Tail(microtasks))
    /\ UNCHANGED <<generationChainRef, resets, sessionVars, recorderVars, appVars>>
    /\ UNCHANGED legacyVars
    /\ UNCHANGED interimTick

\* the await of an aborted request rejects: the catch block runs
RunAbort ==
    /\ microtasks # <<>>
    /\ Head(microtasks).kind = "abort"
    /\ CatchAbortError(Head(microtasks).id, Tail(microtasks))
    /\ UNCHANGED <<generationChainRef, resets, sessionVars, recorderVars, appVars>>
    /\ UNCHANGED legacyVars
    /\ UNCHANGED interimTick

\* the fetch of request r settles
FetchResponds(r, outcome) ==
    /\ TaskBoundary
    /\ InFlight(r)
    /\ requests[r].phase = "fetching"
    /\ IF outcome = "ok"
       THEN /\ requests' = [ requests EXCEPT ![r].phase = "streaming" ]
            /\ UNCHANGED <<messages, conversationError, isGenerating,
                           abortControllerRef, submissions, microtasks,
                           messageIds, runtimeError>>
       ELSE CatchError(r, GenerationErrorText(outcome))
    /\ UNCHANGED <<generationChainRef, resets, sessionVars, recorderVars,
                   interimTranscript, lastFinalTranscriptRef, previousFinal,
                   resetSinceFinal>>
    /\ UNCHANGED legacyVars
    /\ UNCHANGED interimTick

\* reader.read() of request r yields a chunk
StreamChunk(r, value) ==
    /\ TaskBoundary
    /\ InFlight(r)
    /\ requests[r].phase = "streaming"
    /\ LET decoded == Decode(requests[r].pending, value)
           accumulated == requests[r].accumulated \o decoded.text
       IN  /\ requests' = [ requests EXCEPT ![r].accumulated = accumulated,
                                            ![r].pending = decoded.pending,
                                            ![r].received = Append(@, value),
                                            ![r].chunks = @ + 1 ]
           /\ messages' = UpdateMessageById(messages, requests[r].assistantId,
                                            accumulated, TRUE, Null)
    /\ UNCHANGED <<conversationError, isGenerating, abortControllerRef,
                   generationChainRef, submissions, microtasks, messageIds, resets,
                   sessionVars, recorderVars, appVars>>
    /\ UNCHANGED legacyVars
    /\ UNCHANGED interimTick

\* reader.read() of request r reports the end of the stream
StreamDone(r) ==
    /\ TaskBoundary
    /\ InFlight(r)
    /\ requests[r].phase = "streaming"
    /\ LET accumulated == requests[r].accumulated \o DecodeEnd(requests[r].pending)
       IN  /\ messages' = UpdateMessageById(messages, requests[r].assistantId,
                                            accumulated, FALSE, Null)
           /\ requests' = [ requests EXCEPT ![r].phase = "completed",
                                            ![r].accumulated = accumulated,
                                            ![r].pending = <<>> ]
    /\ FinallyBlock(r, microtasks)
    /\ UNCHANGED <<conversationError, generationChainRef, messageIds, resets,
                   sessionVars, recorderVars, appVars>>
    /\ UNCHANGED legacyVars
    /\ UNCHANGED interimTick

\* reader.read() of request r rejects: the stream failed
StreamFails(r) ==
    /\ TaskBoundary
    /\ InFlight(r)
    /\ requests[r].phase = "streaming"
    /\ CatchError(r, GenerationErrorText("network_error"))
    /\ UNCHANGED <<generationChainRef, resets, sessionVars, recorderVars,
                   interimTranscript, lastFinalTranscriptRef, previousFinal,
                   resetSinceFinal>>
    /\ UNCHANGED legacyVars
    /\ UNCHANGED interimTick

\* the Reset Chat button is clicked (it is disabled while there is nothing
\* to reset)
Reset ==
    /\ TaskBoundary
    /\ resets < MaxResets
    /\ messages # <<>> \/ interimTranscript # <<>>
    /\ HandleReset
    /\ UNCHANGED <<sessionVars, recorderVars>>
    /\ UNCHANGED legacyVars
    /\ UNCHANGED interimTick

(***************************************************************************)
(* The earlier App: App.tsx with its recorder and player.  The session     *)
(* hook it calls is given by the Transcription Session state machine.      *)
(***************************************************************************)
MaxTurns == 3

\* connect() of the session: idle or disconnected to connecting; a call made
\* while connecting shares the attempt in flight
SessionConnect(state) ==
    IF state \in {"idle", "disconnected"} THEN "connecting" ELSE state

\* disconnect() of the session
SessionDisconnect(state) ==
    IF state = "idle" THEN "idle" ELSE "disconnected"

\* the effect on [isRecording, isConnected]: connect when recording without a
\* connected session
ConnectWhenRecording(recording, state) ==
    IF recording /\ state # "connected" THEN SessionConnect(state) ELSE state

NotRearming == [ connect |-> "none", capture |-> "none" ]

\* handleStartRecording, the start button (shown while not recording; pressed
\* between turns)
HandleStartRecording ==
    /\ ~isRecordingRef
    /\ ~startRecordingPending
    /\ ~generateSpeechPending
    /\ ~isPlaying
    /\ connectionState' = SessionConnect(connectionState)
    /\ startRecordingPending' = TRUE
    /\ recError' = Null
    /\ rearm' = NotRearming
    /\ UNCHANGED <<wsError, isRecordingRef, generateSpeechPending, isPlaying, turns>>
    /\ UNCHANGED <<sessionVars, recorderVars, conversationVars, appVars>>
    /\ UNCHANGED playerVars
    /\ UNCHANGED interimTick

\* handleStopRecording, the stop button
HandleStopRecording ==
    /\ isRecordingRef
    /\ isRecordingRef' = FALSE
    /\ connectionState' = SessionDisconnect(connectionState)
    /\ rearm' = NotRearming
    /\ UNCHANGED <<wsError, recError, startRecordingPending, generateSpeechPending,
                   isPlaying, turns>>
    /\ UNCHANGED <<sessionVars, recorderVars, conversationVars, appVars>>
    /\ UNCHANGED playerVars
    /\ UNCHANGED interimTick

\* startRecording after its await: getUserMedia resolved (ok) or rejected
GetUserMedia(ok) ==
    /\ startRecordingPending
    /\ startRecordingPending' = FALSE
    /\ isRecordingRef' = (isRecordingRef \/ ok)
    /\ recError' = IF ok THEN recError ELSE "Failed to start recording"
    /\ connectionState' = ConnectWhenRecording(isRecordingRef', connectionState)
    /\ rearm' = IF rearm.capture = "pending"
                THEN [ rearm EXCEPT !.capture = IF ok THEN "ok" ELSE "failed" ]
                ELSE rearm
    /\ UNCHANGED <<wsError, generateSpeechPending, isPlaying, turns>>
    /\ UNCHANGED <<sessionVars, recorderVars, conversationVars, appVars>>
    /\ UNCHANGED playerVars
    /\ UNCHANGED interimTick

\* the session's connect attempt succeeds
SessionOpens ==
    /\ connectionState = "connecting"
    /\ connectionState' = "connected"
    /\ rearm' = IF rearm.connect = "pending"
                THEN [ rearm EXCEPT !.connect = "ok" ] ELSE rearm
    /\ UNCHANGED <<wsError, isRecordingRef, recError, startRecordingPending,
                   generateSpeechPending, isPlaying, turns>>
    /\ UNCHANGED <<sessionVars, recorderVars, conversationVars, appVars>>
    /\ UNCHANGED playerVars
    /\ UNCHANGED interimTick

\* the session's connect attempt fails: error, with the event surfaced
SessionFails ==
    /\ connectionState = "connecting"
    /\ connectionState' = "error"
    /\ wsError' = "WebSocket error occurred."
    /\ rearm' = IF rearm.connect = "pending"
                THEN [ rearm EXCEPT !.connect = "failed" ] ELSE rearm
    /\ UNCHANGED <<isRecordingRef, recError, startRecordingPending,
                   generateSpeechPending, isPlaying, turns>>
    /\ UNCHANGED <<sessionVars, recorderVars, conversationVars, appVars>>
    /\ UNCHANGED playerVars
    /\ UNCHANGED interimTick

\* onFinal up to its await: disconnect, stop recording, call generateSpeech
OnFinal ==
    /\ connectionState = "connected"
    /\ isRecordingRef
    /\ turns < MaxTurns
    /\ turns' = turns + 1
    /\ connectionState' = SessionDisconnect(connectionState)
    /\ isRecordingRef' = FALSE
    /\ generateSpeechPending' = TRUE
    /\ rearm' = NotRearming
    /\ UNCHANGED <<wsError, recError, startRecordingPending, isPlaying>>
    /\ UNCHANGED <<sessionVars, recorderVars, conversationVars, appVars>>
    /\ UNCHANGED playerVars
    /\ UNCHANGED interimTick

\* how an awaited generateSpeech and the playback that follows it go:
\* generateSpeech rejects, the playback starts, or playAudioStream throws
\* while it sets the playback up
SpeechOutcomes == { "rejected", "played", "unplayable" }

\* onFinal after its await: generateSpeech rejected and the catch block
\* logs, or it resolved and playAudioStream is called, which starts the
\* playback or catches its own failure
GenerateSpeechReturns(outcome) ==
    /\ generateSpeechPending
    /\ generateSpeechPending' = FALSE
    /\ isPlaying' = (outcome = "played")
    /\ playbacks' = IF outcome = "rejected" THEN playbacks ELSE playbacks + 1
    /\ playerError' = IF outcome = "rejected" THEN playerError
                      ELSE IF outcome = "played" THEN Null
                      ELSE "Failed to play audio"
    /\ UNCHANGED <<connectionState, wsError, isRecordingRef, recError,
                   startRecordingPending, turns, rearm, onEndedCalls>>
    /\ UNCHANGED <<sessionVars, recorderVars, conversationVars, appVars>>
    /\ UNCHANGED interimTick

\* source.onended: the playback is over, onEnded calls connect() and
\* startRecording()
PlaybackEnded ==
    /\ isPlaying
    /\ isPlaying' = FALSE
    /\ onEndedCalls' = onEndedCalls + 1
    /\ UNCHANGED <<playerError, playbacks>>
    /\ connectionState' = SessionConnect(connectionState)
    /\ startRecordingPending' = TRUE
    /\ recError' = Null
    /\ rearm' = [ connect |-> IF connectionState' = "connected" THEN "ok"
                              ELSE IF connectionState' = "connecting" THEN "pending"
                              ELSE "failed",
                  capture |-> "pending" ]
    /\ UNCHANGED <<wsError, isRecordingRef, generateSpeechPending, turns>>
    /\ UNCHANGED <<sessionVars, recorderVars, conversationVars, appVars>>
    /\ UNCHANGED interimTick

\* the earlier App after its first render
InitLegacy ==
    /\ connectionState = "idle"
    /\ wsError = Null
    /\ isRecordingRef = FALSE
    /\ recError = Null
    /\ startRecordingPending = FALSE
    /\ generateSpeechPending = FALSE
    /\ isPlaying = FALSE
    /\ playerError = Null
    /\ playbacks = 0
    /\ onEndedCalls = 0
    /\ turns = 0
    /\ rearm = [ connect |-> "none", capture |-> "none" ]

(***************************************************************************)
(* Specifications                                                          *)
(***************************************************************************)
Init ==
    /\ url \in Urls
    /\ sockets = <<>>
    /\ wsRef = 0
    /\ status = "idle"
    /\ error = Null
    /\ promises = <<>>
    /\ pendingConnectResolveRef = 0
    /\ pendingConnectRejectRef = 0
    /\ wire = <<>>
    /\ inputSampleRate \in InputSampleRates
    /\ isRecording = FALSE
    /\ carryBufferRef = <<>>
    /\ audioError = Null
    /\ emitted = <<>>
    /\ frames = 0
    /\ captured = <<>>
    /\ messages = <<>>
    /\ conversationError = Null
    /\ isGenerating = FALSE
    /\ abortControllerRef = 0
    /\ generationChainRef = 0
    /\ submissions = <<>>
    /\ requests = <<>>
    /\ microtasks = <<>>
    /\ messageIds = 0
    /\ resets = 0
    /\ interimTranscript = <<>>
    /\ runtimeError = Null
    /\ lastFinalTranscriptRef = <<>>
    /\ previousFinal = <<>>
    /\ resetSinceFinal = FALSE
    /\ interimTick = FALSE
    /\ InitLegacy

\* events the session is exercised with: malformed text, an interim
\* transcript and an error report (none of them starts a turn)
SessionMessages ==
    { d \in MessageData : d.parses => (d.payload.error # Null \/ ~d.payload.is_final) }

\* the transcription session alone
InitSession ==
    /\ Init
    /\ inputSampleRate = 48

NextSession ==
    \/ Len(promises) < MaxConnects /\ Connect
    \/ Disconnect
    \/ \E s \in 1..Len(sockets) : SocketOpen(s)
    \/ \E s \in 1..Len(sockets), d \in SessionMessages : SocketMessage(s, d)
    \/ \E s \in 1..Len(sockets) : SocketClosing(s)
    \/ \E s \in 1..Len(sockets), code \in ServerCloseCodes : SocketClose(s, code)
    \/ \E s \in 1..Len(sockets) : SocketError(s)
    \/ \E s \in 1..Len(sockets) : SocketCloseAfterError(s)

SpecSession == InitSession /\ [][NextSession]_vars

\* the streaming pipeline: the recorder feeding the session
InitStreaming ==
    /\ Init
    /\ url = "ws"
    /\ inputSampleRate = 48

NextStreaming ==
    \/ Len(promises) < MaxStreamConnects /\ Connect
    \/ Disconnect
    \/ \E s \in 1..Len(sockets) : SocketOpen(s)
    \/ \E s \in 1..Len(sockets) : SocketMessage(s, [parses |-> FALSE])
    \/ \E s \in 1..Len(sockets) : SocketClosing(s)
    \/ \E s \in 1..Len(sockets), code \in ServerCloseCodes : SocketClose(s, code)
    \/ \E s \in 1..Len(sockets) : SocketError(s)
    \/ \E s \in 1..Len(sockets) : SocketCloseAfterError(s)
    \/ \E ok \in BOOLEAN : Start(ok)
    \/ Stop
    \/ \E frame \in SessionFrames : frames < MaxFrames /\ WorkletMessage(frame)

SpecStreaming == InitStreaming /\ [][NextStreaming]_vars

\* frames the capture source delivers to the recorder alone
AudioFrames == { << Unit >>, << 0, Unit >> }

\* one capture session of the recorder, at any device rate
InitAudio ==
    /\ Init
    /\ url = "ws"

NextAudio ==
    \/ \E ok \in BOOLEAN : Start(ok)
    \/ \E frame \in AudioFrames : frames < MaxAudioFrames /\ WorkletMessage(frame)

SpecAudio == InitAudio /\ [][NextAudio]_vars

\* downsample on its own: any carry handed in, then calls with the carry
\* threaded from one to the next
MaxCalls == 2

Carries ==
    { <<>>, << Unit >>, << 0, Unit >>, << Unit, Unit, Unit >>, << -Unit, 0, Unit >> }

NineOnes == [ j \in 1..9 |-> Unit ]

DownsampleFrames ==
    { << Unit >>, << 0, Unit >>, << Unit, 0, -Unit, Unit >>, NineOnes }

InitDownsample ==
    /\ url = "ws"
    /\ sockets = <<>>
    /\ wsRef = 0
    /\ status = "idle"
    /\ error = Null
    /\ promises = <<>>
    /\ pendingConnectResolveRef = 0
    /\ pendingConnectRejectRef = 0
    /\ wire = <<>>
    /\ inputSampleRate \in InputSampleRates
    /\ isRecording = TRUE
    /\ carryBufferRef \in Carries
    /\ audioError = Null
    /\ emitted = <<>>
    /\ frames = 0
    /\ captured = <<>>
    /\ messages = <<>>
    /\ conversationError = Null
    /\ isGenerating = FALSE
    /\ abortControllerRef = 0
    /\ generationChainRef = 0
    /\ submissions = <<>>
    /\ requests = <<>>
    /\ microtasks = <<>>
    /\ messageIds = 0
    /\ resets = 0
    /\ interimTranscript = <<>>
    /\ runtimeError = Null
    /\ lastFinalTranscriptRef = <<>>
    /\ previousFinal = <<>>
    /\ resetSinceFinal = FALSE
    /\ interimTick = FALSE
    /\ InitLegacy

NextDownsample ==
    \E frame \in DownsampleFrames : frames < MaxCalls /\ WorkletMessage(frame)

SpecDownsample == InitDownsample /\ [][NextDownsample]_vars

\* final transcripts the backend reports while the App listens
ListeningMessages ==
    { [ parses |-> TRUE,
        payload |-> [ error |-> Null, is_final |-> TRUE, alternatives |-> <<t>> ] ] :
      t \in { <<"a">>, <<"b">> } }

\* the App listening: session, recorder and conversation together (with no
\* reset, no request is ever aborted)
NextListening ==
    \/ Len(promises) < MaxStreamConnects /\ Connect
    \/ \E s \in 1..Len(sockets) : SocketOpen(s)
    \/ \E ok \in BOOLEAN : Start(ok)
    \/ \E frame \in SessionFrames : frames < MaxFrames /\ WorkletMessage(frame)
    \/ \E s \in 1..Len(sockets), d \in ListeningMessages : SocketMessage(s, d)
    \/ RunProcess
    \/ \E r \in 1..Len(requests), outcome \in FetchOutcomes : FetchResponds(r, outcome)
    \/ \E r \in 1..Len(requests) : StreamDone(r)

SpecListening == InitStreaming /\ [][NextListening]_vars

\* the conversation hook, driven by its callers and the generation backend
InitConversation ==
    /\ Init
    /\ url = "ws"
    /\ inputSampleRate = 48

NextConversation ==
    \/ \E text \in SubmittedTexts : UserSubmits(text)
    \/ RunProcess
    \/ RunAbort
    \/ \E r \in 1..Len(requests), outcome \in FetchOutcomes : FetchResponds(r, outcome)
    \/ \E r \in 1..Len(requests), value \in StreamChunks :
          requests[r].chunks < MaxChunks /\ StreamChunk(r, value)
    \/ \E r \in 1..Len(requests) : StreamDone(r)
    \/ \E r \in 1..Len(requests) : StreamFails(r)
    \/ Reset

SpecConversation == InitConversation /\ [][NextConversation]_vars

\* the same with the event loop running every pending promise job and the
\* backend bringing every request it received to an end
ConversationFairness ==
    /\ WF_vars(RunProcess)
    /\ WF_vars(RunAbort)
    /\ WF_vars(\E r \in 1..Len(requests), outcome \in FetchOutcomes :
                  FetchResponds(r, outcome))
    /\ WF_vars(\E r \in 1..Len(requests) : StreamDone(r) \/ StreamFails(r))

SpecConversationFair == SpecConversation /\ ConversationFairness

\* the App's transcript handler in front of the conversation hook, with a
\* backend that answers with an error or with an empty body
NextTranscripts ==
    \/ \E payload \in Payloads : OnResult(payload)
    \/ RunProcess
    \/ RunAbort
    \/ \E r \in 1..Len(requests), outcome \in FetchOutcomes : FetchResponds(r, outcome)
    \/ \E r \in 1..Len(requests) : StreamDone(r)
    \/ Reset

SpecTranscripts == InitConversation /\ [][NextTranscripts]_vars

\* one generation streamed byte by byte, with characters split over chunks
MaxStreamSubmissions == 1
MaxStreamChunks == 3

ByteChunks == { <<"x">>, <<"L">>, <<"T">> }

NextStream ==
    \/ \E text \in SubmittedTexts :
          Len(submissions) < MaxStreamSubmissions /\ UserSubmits(text)
    \/ RunProcess
    \/ \E r \in 1..Len(requests), outcome \in FetchOutcomes : FetchResponds(r, outcome)
    \/ \E r \in 1..Len(requests), value \in ByteChunks :
          requests[r].chunks < MaxStreamChunks /\ StreamChunk(r, value)
    \/ \E r \in 1..Len(requests) : StreamDone(r)
    \/ \E r \in 1..Len(requests) : StreamFails(r)

SpecStream == InitConversation /\ [][NextStream]_vars

\* the earlier App through its turns
NextLegacy ==
    \/ HandleStartRecording
    \/ HandleStopRecording
    \/ \E ok \in BOOLEAN : GetUserMedia(ok)
    \/ SessionOpens
    \/ SessionFails
    \/ OnFinal
    \/ \E outcome \in SpeechOutcomes : GenerateSpeechReturns(outcome)
    \/ PlaybackEnded

SpecLegacy == InitConversation /\ [][NextLegacy]_vars

(***************************************************************************)
(* Properties of the transcription session                                 *)
(***************************************************************************)
\* C1: while the session status is `connecting`, no step (in particular no
\* further connect() call) creates another socket.
C1_SingleAttempt ==
    [][status = "connecting" => Len(sockets') = Len(sockets)]_vars

\* C1, the case: two connect() calls share one socket that is still connecting
C1_Witness ==
    /\ status = "connecting"
    /\ \E p, q \in 1..Len(promises) :
          /\ p < q
          /\ promises[p].socket # 0
          /\ promises[p].socket = promises[q].socket
          /\ sockets[promises[p].socket].readyState = "CONNECTING"

\* C2: every promise of a connect() call that waits on a socket is resolved
\* once that socket has opened and rejected once its attempt has failed.
C2_WaitersShareOutcome ==
    \A p \in 1..Len(promises) :
        promises[p].socket # 0 =>
            /\ sockets[promises[p].socket].attempt = "opened"
                  => promises[p].state = "resolved"
            /\ sockets[promises[p].socket].attempt = "failed"
                  => promises[p].state = "rejected"

\* C11: an event of a socket on which disconnect() was called changes
\* nothing of the session or the App: not the status, the error, the held
\* socket or the connect promises, and no transcript or turn is reported.
\* An open, error or close event is a step that changes the socket; a
\* message event is a step without a new socket while every socket of a
\* configured session has been released.
C11_ReleasedSocketIsSilent ==
    [][/\ \A s \in 1..Len(sockets) :
             (sockets[s].released /\ sockets'[s] # sockets[s])
                => UNCHANGED <<wsRef, status, error, promises,
                               pendingConnectResolveRef, pendingConnectRejectRef,
                               conversationVars, appVars>>
       /\ ( /\ url = "ws"
            /\ Len(sockets') = Len(sockets)
            /\ \A s \in 1..Len(sockets) : sockets[s].released )
          => UNCHANGED <<wsRef, status, error, promises,
                         pendingConnectResolveRef, pendingConnectRejectRef,
                         conversationVars, appVars>>]_vars

\* C11, the case: the close event of a released socket has been delivered
\* while a later connect() holds a newer socket
C11_Witness ==
    \E s \in 1..Len(sockets) :
        /\ sockets[s].released
        /\ sockets[s].readyState = "CLOSED"
        /\ wsRef # 0
        /\ wsRef > s
        /\ status \in {"connecting", "connected"}

\* C12: the close event of a socket with code 1000 leaves the session
\* `disconnected` with no error set; with any other code it leaves the
\* session in `error` with a message.
C12_CloseCodeDecides ==
    [][\A s \in 1..Len(sockets) :
          ( /\ sockets[s].handlers
            /\ sockets[s].closeCode = 0
            /\ sockets'[s].closeCode # 0 )
             => IF sockets'[s].closeCode = NormalClosure
                THEN status' = "disconnected" /\ error' = Null
                ELSE status' = "error" /\ error' # Null]_vars

\* C13: a malformed message that reaches a connected session is reported
\* and leaves the session connected, holding its open socket.
C13_MalformedIsNotFatal ==
    [][( /\ status = "connected"
         /\ error # "Failed to parse STT payload."
         /\ error' = "Failed to parse STT payload." )
          => /\ runtimeError' = "Failed to parse STT payload."
             /\ status' = "connected"
             /\ wsRef' # 0
             /\ sockets'[wsRef'].readyState = "OPEN"]_vars

\* C19: the session status changes only along these edges: idle or
\* disconnected to connecting, connecting to connected, connecting or
\* connected to error, and to disconnected; error is entered only from
\* connecting or connected.
C19_StatusEdges ==
    [][status' # status =>
          \/ status \in {"idle", "disconnected"} /\ status' = "connecting"
          \/ status = "connecting" /\ status' = "connected"
          \/ status \in {"connecting", "connected"} /\ status' = "error"
          \/ status' = "disconnected"]_vars

\* C27: every promise returned by connect() settles: a promise is pending
\* only while the session still holds its resolve or its reject function
\* (once both are dropped, nothing can settle it any more).
C27_PendingPromiseCanSettle ==
    \A p \in 1..Len(promises) :
        promises[p].state = "pending"
            => p \in {pendingConnectResolveRef, pendingConnectRejectRef}

\* C29: whenever the status is connected, the session holds a reference to
\* an open socket with its handlers attached, so that sendAudioChunk
\* forwards the chunk.
C29_ConnectedHoldsOpenSocket ==
    status = "connected"
        => /\ wsRef # 0
           /\ sockets[wsRef].readyState = "OPEN"
           /\ sockets[wsRef].handlers
           /\ SendAccepted

(***************************************************************************)
(* Properties of the conversation                                          *)
(***************************************************************************)
\* C3: submissions are processed one at a time in arrival order: the side
\* effects of a submission with a non-empty text (its history append and
\* its request) have begun only if every earlier submission has settled.
C3_Serialized ==
    \A i, j \in 1..Len(submissions) :
        (i < j /\ submissions[j].request # 0)
            => submissions[i].phase = "settled"

\* C4: at most one generation request is outstanding (issued and neither
\* completed, failed nor aborted).
C4_OneOutstanding ==
    Cardinality({ r \in 1..Len(requests) : InFlight(r) }) <= 1

\* C4, the case: a request is outstanding while an earlier, aborted one has
\* not yet run its catch block
C4_Witness ==
    \E r, q \in 1..Len(requests) :
        /\ r < q
        /\ requests[r].aborted
        /\ requests[r].phase \in {"fetching", "streaming"}
        /\ InFlight(q)

\* C5: a non-empty utterance submitted while a request is in flight aborts
\* that request: once the submitting task is over, no such utterance waits
\* in the chain while a request is still outstanding.
C5_ArrivalAborts ==
    TaskBoundary =>
        \A j \in 1..Len(submissions) :
            (submissions[j].phase = "queued" /\ Trim(submissions[j].text) # <<>>)
                => \A r \in 1..Len(requests) : ~InFlight(r)

\* C6: the step in which a generation ends cancelled removes exactly its
\* placeholder from the history (every other turn stays, in order) and
\* sets no error; no cancelled request has a turn in the history.
C6_CancelledLeavesNoPlaceholder ==
    [][\A r \in 1..Len(requests) :
          /\ (requests[r].phase # "cancelled" /\ requests'[r].phase = "cancelled")
                => /\ messages' = SelectSeq(messages,
                                     LAMBDA m : m.id # requests[r].assistantId)
                   /\ conversationError' = conversationError
                   /\ runtimeError' = runtimeError
          /\ requests'[r].phase = "cancelled"
                => \A k \in 1..Len(messages') :
                      messages'[k].id # requests[r].assistantId]_vars

\* C6, the case: a request was cancelled after it had streamed text, and
\* the user turn it answered is still in the history
C6_Witness ==
    \E r \in 1..Len(requests) :
        /\ requests[r].phase = "cancelled"
        /\ requests[r].accumulated # <<>>
        /\ \E k \in 1..Len(messages) :
              /\ messages[k].id = requests[r].assistantId - 1
              /\ messages[k].role = "user"

\* C21: when a request that was not cancelled fails (a response that is not
\* ok, a fetch or a stream that fails), the error is surfaced, in the hook's
\* error state and through onError, and the placeholder assistant turn stays
\* in the history, with the error text as its text and its streaming flag
\* cleared.
C21_FailureShownInPlaceholder ==
    [][\A r \in 1..Len(requests) :
          (requests[r].phase # "failed" /\ requests'[r].phase = "failed")
             => /\ conversationError' \in { GenerationErrorText(o) :
                                              o \in FetchOutcomes \ {"ok"} }
                /\ runtimeError' = conversationError'
                /\ Len(messages') = Len(messages)
                /\ \E i \in 1..Len(messages') :
                      /\ messages'[i].id = requests[r].assistantId
                      /\ messages'[i].role = "model"
                      /\ messages'[i].parts = << TextOf(conversationError') >>
                      /\ ~messages'[i].isStreaming
                      /\ messages'[i].error = conversationError']_vars

C21_Witness ==
    \E r \in 1..Len(requests) :
        /\ requests[r].phase = "failed"
        /\ requests[r].chunks > 0
        /\ \E i \in 1..Len(messages) :
              /\ messages[i].id = requests[r].assistantId
              /\ messages[i].error = GenerationErrorText("network_error")
              /\ ~messages[i].isStreaming

RECURSIVE Concatenated(_)
\* the chunks of a log, one after the other
Concatenated(log) ==
    IF log = <<>> THEN <<>> ELSE Head(log) \o Concatenated(Tail(log))

\* C22: while a generation streams, the placeholder's text after chunk k is
\* the text of chunks 1..k concatenated and the turn stays marked streaming;
\* the streaming flag is cleared only in the step in which the stream ends
\* (for a successful generation, when it signals completion), and a flag
\* once cleared is never set again.
C22_ChunksExtendPlaceholder ==
    [][/\ \A r \in 1..Len(requests) :
            (requests'[r].chunks = requests[r].chunks + 1)
               => \E i \in 1..Len(messages') :
                     /\ messages'[i].id = requests[r].assistantId
                     /\ messages'[i].parts
                          = << Decode(<<>>, Concatenated(requests'[r].received)).text >>
                     /\ messages'[i].isStreaming
       /\ \A i \in 1..Len(messages) :
            (i <= Len(messages') /\ messages'[i].id = messages[i].id)
               => /\ ~messages[i].isStreaming => ~messages'[i].isStreaming
                  /\ (messages[i].isStreaming /\ ~messages'[i].isStreaming)
                        => \E r \in 1..Len(requests) :
                              /\ requests[r].assistantId = messages[i].id
                              /\ requests[r].phase \in {"fetching", "streaming"}
                              /\ requests'[r].phase \in {"completed", "failed"}
                              /\ requests'[r].phase = "completed"
                                    => /\ requests[r].phase = "streaming"
                                       /\ messages'[i].error = Null]_vars

C22_Witness ==
    \E r \in 1..Len(requests) :
        /\ requests[r].phase = "streaming"
        /\ requests[r].received = << <<"x">>, <<"L">>, <<"T">> >>
        /\ \E i \in 1..Len(messages) :
              /\ messages[i].id = requests[r].assistantId
              /\ messages[i].parts = << << "x", "e'" >> >>
              /\ messages[i].isStreaming

\* C23: the request issued for a submission carries the history in order, up
\* to and including the new user turn, each turn reduced to its role and its
\* trimmed, non-empty parts; a turn whose parts are all empty after trimming
\* (such as the streaming placeholder) is left out of the payload and stays
\* in the local history.
C23_PayloadIsTrimmedHistory ==
    [][Len(requests') = Len(requests) + 1 =>
          LET r == Len(requests')
              history == SubSeq(messages', 1, Len(messages') - 1)
              kept == { i \in 1..Len(history) :
                          \E k \in 1..Len(history[i].parts) :
                              Trim(history[i].parts[k]) # <<>> }
              position(i) == Cardinality({ j \in kept : j <= i })
              payload == requests'[r].payload
          IN  /\ Len(messages') = Len(messages) + 2
              /\ SubSeq(messages', 1, Len(messages)) = messages
              /\ history[Len(history)].role = "user"
              /\ history[Len(history)].parts
                    = << Trim(submissions[requests'[r].submission].text) >>
              /\ messages'[Len(messages')].id = requests'[r].assistantId
              /\ messages'[Len(messages')].isStreaming
              /\ Len(payload) = Cardinality(kept)
              /\ \A i \in kept :
                    /\ payload[position(i)].role = history[i].role
                    /\ payload[position(i)].parts
                          = << Trim(history[i].parts[1]) >>
                    /\ Len(history[i].parts) = 1]_vars

\* C23, the case: a request whose history held a reply with white space
\* around it and a reply that ended empty
C23_Witness ==
    \E r \in 1..Len(requests) :
        /\ Len(requests[r].payload) = 4
        /\ Len(messages) = 6
        /\ messages[2].parts = << << " ", "x" >> >>
        /\ requests[r].payload[2] = [ role |-> "model", parts |-> << << "x" >> >> ]
        /\ messages[4].parts = << <<>> >>
        /\ messages[4].error = Null
        /\ ~messages[4].isStreaming
        /\ messages[6].id = requests[r].assistantId

\* C28: reset() discards all earlier work: a step that adds a turn to the
\* history or issues a generation request does so for a submission made
\* after the latest reset.
C28_ResetDiscardsEarlierWork ==
    [][(Len(messages') > Len(messages) \/ Len(requests') > Len(requests))
          => /\ Len(requests') = Len(requests) + 1
             /\ submissions[requests'[Len(requests')].submission].epoch = resets]_vars

\* C30: a generation that fails or is cancelled does not block the
\* submission queue: provided the backend brings every request to an end,
\* every handleUserMessage call is eventually processed and its promise
\* settles: again and again, every call made so far has settled (a settled
\* call stays settled).
C30_QueueNeverBlocked ==
    []<>(\A i \in 1..Len(submissions) : submissions[i].phase = "settled")

\* C30, the case: a call made after a failed and a cancelled generation has
\* issued its own request and settled
C30_Witness ==
    \E i, j, k \in 1..Len(submissions) :
        /\ i < k /\ j < k
        /\ submissions[i].request # 0
        /\ requests[submissions[i].request].phase = "failed"
        /\ submissions[j].request # 0
        /\ requests[submissions[j].request].phase = "cancelled"
        /\ submissions[k].request # 0
        /\ submissions[k].phase = "settled"

\* the positions of the assistant turns whose streaming flag is set
StreamingTurns ==
    { i \in 1..Len(messages) :
        messages[i].role = "model" /\ messages[i].isStreaming }

\* C31: the history holds at most one assistant turn with the streaming
\* flag set, and that turn is the last element of the history, directly
\* after the user turn it answers.
C31_OneStreamingTurnAtEnd ==
    /\ Cardinality(StreamingTurns) <= 1
    /\ \A i \in StreamingTurns :
          /\ i = Len(messages)
          /\ i > 1
          /\ messages[i - 1].role = "user"
          /\ \E r \in 1..Len(requests) :
                /\ requests[r].assistantId = messages[i].id
                /\ messages[i - 1].parts =
                       << Trim(submissions[requests[r].submission].text) >>

\* the texts a user turn of a payload can carry: the committed utterances
UtteranceTexts ==
    { Trim(submissions[i].text) : i \in 1..Len(submissions) }

\* the texts a model turn of a payload can carry when it holds what the
\* backend produced: the text decoded so far from some response, trimmed
BackendTexts ==
    UNION { { Trim(SubSeq(requests[q].accumulated, 1, n)) :
                n \in 0..Len(requests[q].accumulated) } :
            q \in 1..Len(requests) }

\* C32: every turn of a generation request payload is a committed user
\* utterance or text produced by the generation backend; the error text of
\* a failed assistant turn is never sent as a model turn.
C32_PayloadHoldsNoErrorText ==
    \A r \in 1..Len(requests) :
        \A k \in 1..Len(requests[r].payload) :
            LET turn == requests[r].payload[k]
            IN  /\ Len(turn.parts) = 1
                /\ turn.role = "user" => turn.parts[1] \in UtteranceTexts
                /\ turn.role = "model" => turn.parts[1] \in BackendTexts

(***************************************************************************)
(* Properties of the transcript handler                                    *)
(***************************************************************************)
\* C7 as stated: a final transcript event never produces a submission when
\* its trimmed text equals that of the final event before it.
C7_NoRepeatedTurn ==
    [][Len(submissions') > Len(submissions) =>
          \/ previousFinal = <<>>
          \/ Trim(previousFinal[1].transcript) # submissions'[Len(submissions')].text]_vars

\* C7, amended: a final transcript event never produces a submission when
\* its trimmed text equals that of the final event before it, provided
\* Reset Chat was not clicked between the two events.
C7_NoRepeatedTurnUnlessReset ==
    [][Len(submissions') > Len(submissions) =>
          \/ previousFinal = <<>>
          \/ Trim(previousFinal[1].transcript) # submissions'[Len(submissions')].text
          \/ resetSinceFinal]_vars

\* C7, the case: the latest final event repeated the committed utterance
\* and was discarded, leaving the one submission of the first event
C7_Witness ==
    /\ previousFinal # <<>>
    /\ previousFinal[1].outcome = "repeated"
    /\ ~resetSinceFinal
    /\ Len(submissions) = 1
    /\ submissions[1].text = Trim(previousFinal[1].transcript)

\* C8: the step that handles a final transcript event whose text is empty
\* or all whitespace leaves the interim transcript empty and adds no turn
\* and no request; no user turn of the history has such a text.
C8_BlankFinalIgnored ==
    [][/\ ( /\ previousFinal' # previousFinal
            /\ \A i \in 1..Len(previousFinal'[1].transcript) :
                  IsSpace(previousFinal'[1].transcript[i]) )
          => /\ interimTranscript' = <<>>
             /\ messages' = messages
             /\ requests' = requests
       /\ \A k \in 1..Len(messages') :
             messages'[k].role = "user"
                => \E i \in 1..Len(messages'[k].parts[1]) :
                      ~IsSpace(messages'[k].parts[1][i])]_vars

\* C8, the case: the latest final event carried only whitespace, after an
\* earlier utterance had produced a turn
C8_Witness ==
    /\ previousFinal # <<>>
    /\ previousFinal[1].transcript = << " " >>
    /\ previousFinal[1].outcome = "blank"
    /\ interimTranscript = <<>>
    /\ Len(messages) > 0

\* C25: a transcript event that is not final overwrites the interim
\* transcript with its text and changes nothing else: the history, the last
\* committed utterance, the generation state and the session are as before.
C25_InterimOverwritten ==
    [][\A payload \in Payloads :
          ( /\ payload.error = Null
            /\ ~payload.is_final
            /\ interimTick' # interimTick
            /\ OnResult(payload) )
             => /\ interimTranscript' = Transcript(payload)
                /\ UNCHANGED <<conversationVars, lastFinalTranscriptRef,
                               runtimeError, sessionVars, recorderVars>>]_vars

\* C25, as the code has it: an event that is not final and carries a text
\* overwrites the interim transcript with that text, one that carries no
\* text leaves the interim transcript as it is, and neither changes
\* anything else.
C25_InterimOverwrittenByText ==
    [][\A payload \in Payloads :
          ( /\ payload.error = Null
            /\ ~payload.is_final
            /\ interimTick' # interimTick
            /\ OnResult(payload) )
             => /\ interimTranscript' = IF Transcript(payload) = <<>>
                                         THEN interimTranscript
                                         ELSE Transcript(payload)
                /\ UNCHANGED <<conversationVars, lastFinalTranscriptRef,
                               runtimeError, sessionVars, recorderVars>>]_vars

\* C25, the case: an interim text is shown after a turn was committed
C25_Witness ==
    /\ interimTick
    /\ interimTranscript = <<"a">>
    /\ lastFinalTranscriptRef = <<"b">>
    /\ messages # <<>>

\* C18: when a final transcript that is not blank and not a repetition
\* arrives, the same step stops audio capture, closes the transcription
\* session and appends a user turn followed by an assistant turn marked
\* streaming.
C18_FinalStopsAndAppends ==
    [][( /\ previousFinal' # previousFinal
         /\ previousFinal' # <<>>
         /\ previousFinal'[1].outcome = "committed" )
          => /\ ~isRecording'
             /\ wsRef' = 0
             /\ status' = "disconnected"
             /\ Len(messages') = Len(messages) + 2
             /\ messages'[Len(messages) + 1].role = "user"
             /\ messages'[Len(messages) + 2].role = "model"
             /\ messages'[Len(messages) + 2].isStreaming]_vars

\* C14: once the two steps taken when playback ended, re-opening the session
\* and re-arming capture, have both ended, the controller is listening
\* (session connected, capture active) if both succeeded, and otherwise idle
\* (no session connected or connecting, no capture active or starting) with
\* the error surfaced.
C14_RecoveryEndsListeningOrIdle ==
    ( rearm.connect \in {"ok", "failed"} /\ rearm.capture \in {"ok", "failed"} )
        => IF rearm.connect = "ok" /\ rearm.capture = "ok"
           THEN connectionState = "connected" /\ isRecordingRef
           ELSE /\ connectionState \notin {"connecting", "connected"}
                /\ ~isRecordingRef
                /\ ~startRecordingPending
                /\ (wsError # Null \/ recError # Null)

\* C24: the Playing state always ends with the completion signal: once the
\* player is not playing, every playback it was handed, whether it finished
\* or failed, has called the onEnded the turn controller waits for.
C24_PlaybackSignalsCompletion ==
    ~isPlaying => onEndedCalls = playbacks

(***************************************************************************)
(* Properties of the recorder                                              *)
(***************************************************************************)
\* the number of samples the capture source has delivered
RECURSIVE TotalInput(_)
TotalInput(log) ==
    IF log = <<>> THEN 0
    ELSE Len(Head(log).input) + TotalInput(Tail(log))

\* the number of samples downsample has returned
RECURSIVE TotalOutput(_)
TotalOutput(log) ==
    IF log = <<>> THEN 0
    ELSE Len(Head(log).result.downsampled) + TotalOutput(Tail(log))

\* C15: with a device rate above the target rate, the number of samples
\* produced so far differs from floor(samples delivered / ratio) by at most
\* one.
C15_OutputLengthTracksInput ==
    inputSampleRate > DEFAULT_TARGET_SAMPLE_RATE =>
        LET expected == (TotalInput(captured) * DEFAULT_TARGET_SAMPLE_RATE)
                            \div inputSampleRate
            produced == TotalOutput(captured)
        IN  /\ produced <= expected + 1
            /\ expected <= produced + 1

\* C16: a call of downsample from a rate above the target returns
\* n = floor(length / ratio) samples, where length counts the carry and the
\* frame together; sample i is the arithmetic mean of the samples at indices
\* floor(i * ratio) up to, not including, floor((i + 1) * ratio); the new
\* carry is what lies from index floor(n * ratio) on, in order.  From 48000
\* to 16000 a carry of 3 samples and a frame of 9 samples of 1.0 give 4
\* samples and an empty carry.
C16_DownsampleContract ==
    \A k \in 1..Len(captured) :
        LET call == captured[k]
            buffer == call.carry \o call.input
            n == (Len(buffer) * DEFAULT_TARGET_SAMPLE_RATE) \div inputSampleRate
            lo(i) == (i * inputSampleRate) \div DEFAULT_TARGET_SAMPLE_RATE
        IN  inputSampleRate > DEFAULT_TARGET_SAMPLE_RATE =>
                /\ ~call.result.threw
                /\ Len(call.result.downsampled) = n
                /\ \A i \in 0..(n - 1) :
                      call.result.downsampled[i + 1] * (lo(i + 1) - lo(i))
                          = Sum(buffer, lo(i), lo(i + 1))
                /\ call.result.leftover
                      = [ j \in 1..(Len(buffer) - lo(n)) |-> buffer[lo(n) + j] ]
                /\ ( /\ inputSampleRate = 48
                     /\ Len(call.carry) = 3
                     /\ call.input = NineOnes )
                   => /\ Len(call.result.downsampled) = 4
                      /\ call.result.leftover = <<>>

C16_Witness ==
    /\ inputSampleRate = 48
    /\ Len(captured) > 0
    /\ captured[1].carry = << -Unit, 0, Unit >>
    /\ captured[1].input = NineOnes
    /\ captured[1].result.downsampled = << 0, Unit, Unit, Unit >>
    /\ carryBufferRef = <<>>

\* C17: a frame processed with the target rate above the device rate fails
\* with a configuration error: no chunk is emitted, the carry is left as it
\* was, and the failure ends the capture session, which does not stay
\* recording for further frames.
C17_ConfigErrorIsFatal ==
    [][( /\ inputSampleRate < DEFAULT_TARGET_SAMPLE_RATE
         /\ frames' = frames + 1 )
          => /\ audioError' # Null
             /\ emitted' = emitted
             /\ carryBufferRef' = carryBufferRef
             /\ isRecording' = FALSE]_vars

\* C26: no chunk with zero samples is handed to the session; when a frame
\* that is processed yields no output sample, nothing is emitted, the
\* samples of the frame are kept in the carry, behind those already there,
\* and no error is raised.
C26_NoEmptyChunk ==
    [][frames' = frames + 1 =>
          LET call == captured'[Len(captured')]
          IN  /\ emitted' # emitted
                    => Len(emitted'[Len(emitted')].chunk.data) > 0
              /\ (~call.result.threw /\ call.result.downsampled = <<>>)
                    => /\ emitted' = emitted
                       /\ wire' = wire
                       /\ carryBufferRef' = carryBufferRef \o call.input
                       /\ audioError' = audioError
                       /\ runtimeError' = runtimeError]_vars

\* C26, the case: two frames were kept in the carry and nothing was emitted
C26_Witness ==
    /\ inputSampleRate = 48
    /\ Len(captured) = 2
    /\ captured[2].result.downsampled = <<>>
    /\ carryBufferRef = << Unit, Unit >>
    /\ emitted = <<>>
    /\ audioError = Null

(***************************************************************************)
(* Properties of the streaming pipeline                                    *)
(***************************************************************************)
\* C9: a chunk handed to sendAudioChunk while the session status is not
\* `connected` is refused.
C9_RefusedUnlessConnected ==
    \A k \in 1..Len(emitted) :
        emitted[k].status # "connected" => ~emitted[k].accepted

\* C10: what the socket was given is, chunk for chunk and in order, what
\* the recorder emitted and the session accepted; each chunk stems from one
\* frame and the frames are in capture order.
C10_CaptureOrder ==
    LET accepted == SelectSeq(emitted, LAMBDA e : e.accepted)
    IN  /\ Len(wire) = Len(accepted)
        /\ \A k \in 1..Len(wire) : wire[k].chunk = accepted[k].chunk
        /\ \A k \in 1..Len(wire) - 1 : wire[k].chunk.frame < wire[k + 1].chunk.frame

\* C10, the case: two chunks have been forwarded
C10_Witness ==
    /\ Len(wire) >= 2
    /\ wire[1].chunk.frame < wire[2].chunk.frame

\* C20: when the session suffers a transport failure or an abnormal close,
\* capture is stopped: the recorder produces no chunk while the session is
\* in error because of a connection failure.
C20_FailureStopsCapture ==
    \A k \in 1..Len(emitted) :
        ~( /\ emitted[k].status = "error"
           /\ emitted[k].error \in { "WebSocket error occurred.",
                                     CloseMessage(1006), CloseMessage(1011) } )

====
